---- MODULE Spec2Model ----
(***************************************************************************)
(* A model of openmeteo_weather.py: two tools, get_7day_weather and        *)
(* get_current_weather, that geocode a location (Nominatim), call the      *)
(* Open-Meteo forecast endpoint through a requests_cache.CachedSession     *)
(* wrapped by retry_requests.retry, and reshape the response.              *)
(*                                                                         *)
(* Python values are encoded as follows: None is the empty tuple, a        *)
(* coordinate pair is <<latitude, longitude>>, a dict is the sequence of   *)
(* its <<key, value>> items in insertion order, a list of records is a     *)
(* sequence of functions from column name to value, and the end of a call  *)
(* is a record [kind, error, value] with kind "return" or "raise".         *)
(* Timestamps and durations are whole seconds.                             *)
(***************************************************************************)
EXTENDS Integers, Sequences, FiniteSets, TLC

VARIABLES
  now,        \* wall clock, seconds
  cache,      \* cache_session's store: request signature -> entry
  answered,   \* history: signature -> last successful network answer
  pc,         \* per invocation: "idle", "geocode", "weather", "http", "done"
  tool,       \* per invocation: the tool that was invoked
  location,   \* per invocation: the location argument
  geoUp,      \* per invocation: what geolocator.geocode did
  geoRet,     \* per invocation: what get_lat_long gave back
  params,     \* per invocation: the params dict of the weather request
  total,      \* per invocation: urllib3 Retry.total of the request in flight
  response,   \* per invocation: responses[0]
  failure,    \* per invocation: the failure that exhausted the retries
  served,     \* per invocation: "none", "cache" or "network"
  calls,      \* per invocation: the calls made so far, in order
  outcome,    \* per invocation: how the tool call ended
  shPc,       \* shaper harness: "off", "input" or "done"
  shTool,     \* shaper harness: the tool whose shaper runs
  shIn,       \* shaper harness: the response handed to the shaper
  shOut       \* shaper harness: what the shaper produced

vars == <<now, cache, answered, pc, tool, location, geoUp, geoRet, params,
          total, response, failure, served, calls, outcome,
          shPc, shTool, shIn, shOut>>

mainVars == <<now, cache, answered, pc, tool, location, geoUp, geoRet, params,
              total, response, failure, served, calls, outcome>>

shapeVars == <<shPc, shTool, shIn, shOut>>

----------------------------------------------------------------------------
(* Bounds of the model *)

\* number of clock ticks the model lets pass
MaxTicks == 2
\* seconds per clock tick
TickSeconds == 1800
\* longest value array the shaper harness is given
MaxLen == 3

(* Program constants *)

\* CachedSession(".cache", expire_after=3600)
expire_after == 3600
\* retry(cache_session, retries=5, backoff_factor=0.2)
retries == 5

----------------------------------------------------------------------------
(* Values *)

None == <<>>

url == "https://api.open-meteo.com/v1/forecast"

Tools == {"get_7day_weather", "get_current_weather"}

hourly_variables == <<"temperature_2m", "relative_humidity_2m", "precipitation">>

current_variables ==
  <<"temperature_2m", "relative_humidity_2m", "apparent_temperature",
    "precipitation", "weather_code", "wind_speed_10m", "wind_direction_10m">>

NoOutcome == [kind |-> "none", error |-> "", value |-> <<>>]

Return(v) == [kind |-> "return", error |-> "", value |-> v]

Raise(e) == [kind |-> "raise", error |-> e, value |-> <<>>]

\* a block of a response: Time(), TimeEnd(), Interval(), Variables(k)
NoBlock == [Time |-> 0, TimeEnd |-> 0, Interval |-> 0, Variables |-> <<>>]

NoResponse == [Hourly |-> NoBlock, Current |-> NoBlock]

RECURSIVE SeqsUpTo(_, _)
SeqsUpTo(S, n) ==
  IF n = 0 THEN {<<>>}
  ELSE LET shorter == SeqsUpTo(S, n - 1)
       IN shorter \cup {Append(s, x) : s \in {t \in shorter : Len(t) = n - 1}, x \in S}

----------------------------------------------------------------------------
(* The response shapers *)

\* pd.date_range(start, end, freq, inclusive="left"): start, start + freq, ...
\* up to but not including end
date_range(start, end, freq) ==
  LET n == IF end <= start THEN 0 ELSE ((end - start - 1) \div freq) + 1
  IN [k \in 1..n |-> start + (k - 1) * freq]

\* pd.DataFrame(data=hourly_data): columns of one length, or ValueError
\* ("All arrays must be of the same length")
DataFrame(data) ==
  LET lens == {Len(data[k][2]) : k \in DOMAIN data}
  IN IF Cardinality(lens) > 1
     THEN [raised |-> TRUE, error |-> "ValueError", data |-> <<>>, nrows |-> 0]
     ELSE [raised |-> FALSE, error |-> "", data |-> data,
           nrows |-> CHOOSE n \in lens : TRUE]

\* DataFrame.to_dict(orient="records"): one {column: value} map per row
to_dict_records(df) ==
  LET names == {df.data[k][1] : k \in DOMAIN df.data}
      col(name) == df.data[CHOOSE k \in DOMAIN df.data : df.data[k][1] = name][2]
  IN [r \in 1..df.nrows |-> [name \in names |-> col(name)[r]]]

\* hourly.Variables(k).ValuesAsNumpy(), k counted from 0
ValuesAsNumpy(block, k) == block.Variables[k + 1]

\* lines 74-85 of get_7day_weather: the dict handed to DataFrame
hourly_data_inclusive_both(hourly) ==
  << <<"date", date_range(hourly.Time, hourly.TimeEnd + 1, hourly.Interval)>>,
     <<"temperature_2m", ValuesAsNumpy(hourly, 0)>>,
     <<"relative_humidity_2m", ValuesAsNumpy(hourly, 1)>>,
     <<"precipitation", ValuesAsNumpy(hourly, 2)>> >>

hourly_data(hourly) ==
  << <<"date", date_range(hourly.Time, hourly.TimeEnd, hourly.Interval)>>,
     <<"temperature_2m", ValuesAsNumpy(hourly, 0)>>,
     <<"relative_humidity_2m", ValuesAsNumpy(hourly, 1)>>,
     <<"precipitation", ValuesAsNumpy(hourly, 2)>> >>

\* lines 62-88 of get_7day_weather: from responses[0] to the end of the call
shape_7day(resp) ==
  LET hourly_dataframe == DataFrame(hourly_data(resp.Hourly))
  IN IF hourly_dataframe.raised THEN Raise(hourly_dataframe.error)
     ELSE Return(to_dict_records(hourly_dataframe))

\* current.Variables(k).Value(), k counted from 0
Value(block, k) == block.Variables[k + 1]

\* lines 131-139 of get_current_weather
current_dict_swapped(current) ==
  << <<"temperature_2m", Value(current, 0)>>,
     <<"relative_humidity_2m", Value(current, 1)>>,
     <<"apparent_temperature", Value(current, 2)>>,
     <<"precipitation", Value(current, 3)>>,
     <<"weather_code", Value(current, 4)>>,
     <<"wind_speed_10m", Value(current, 6)>>,
     <<"wind_direction_10m", Value(current, 5)>> >>

current_dict(current) ==
  << <<"temperature_2m", Value(current, 0)>>,
     <<"relative_humidity_2m", Value(current, 1)>>,
     <<"apparent_temperature", Value(current, 2)>>,
     <<"precipitation", Value(current, 3)>>,
     <<"weather_code", Value(current, 4)>>,
     <<"wind_speed_10m", Value(current, 5)>>,
     <<"wind_direction_10m", Value(current, 6)>> >>

\* json.dumps of a dict: the text of a JSON object, as its tokens: an opening
\* brace, the members in the dict's insertion order, a closing brace
json_dumps(d) == <<"{">> \o d \o <<"}">>

\* the members of a JSON object text, in the order they are written
json_members(text) == SubSeq(text, 2, Len(text) - 1)

\* lines 115-142 of get_current_weather: from responses[0] to the end of the call
shape_current(resp) == Return(json_dumps(current_dict(resp.Current)))

shape(t, resp) ==
  IF t = "get_7day_weather" THEN shape_7day(resp) ELSE shape_current(resp)

----------------------------------------------------------------------------
(* The geocoder adapter *)

Locations == {"Paris", "Atlantis"}

\* what Nominatim knows: a <<latitude, longitude>> per known place, None otherwise
Nominatim(loc) ==
  IF loc = "Paris" THEN <<49, 2>> ELSE None

Coordinates == {Nominatim(loc) : loc \in Locations} \ {None}

\* geolocator.geocode(location_string): a Location (here its latitude and
\* longitude), None for no match, or an exception (GeocoderServiceError,
\* GeocoderTimedOut, ...)
geocode(loc) ==
  { [kind |-> IF Nominatim(loc) = None THEN "nomatch" ELSE "match",
     point |-> Nominatim(loc)],
    [kind |-> "raise", point |-> None] }

\* get_lat_long without its try/except
get_lat_long_no_except(up) ==
  IF up.kind = "raise" THEN [raised |-> TRUE, value |-> None]
  ELSE IF up.point # None THEN [raised |-> FALSE, value |-> up.point]
  ELSE [raised |-> FALSE, value |-> None]

\* get_lat_long: what the call gives back (raised: an exception left it)
get_lat_long(up) ==
  LET body == IF up.kind = "raise" THEN [raised |-> TRUE, value |-> None]
              ELSE IF up.point # None THEN [raised |-> FALSE, value |-> up.point]
              ELSE [raised |-> FALSE, value |-> None]
  IN IF body.raised THEN [raised |-> FALSE, value |-> None] ELSE body

NoRet == [raised |-> FALSE, value |-> None]

NoUp == [kind |-> "none", point |-> None]

\* lat, long = <value> that lets None through, as a pair of zeros
unpack_lenient(v) ==
  IF Len(v) = 2 THEN [ok |-> TRUE, lat |-> v[1], long |-> v[2]]
  ELSE [ok |-> TRUE, lat |-> 0, long |-> 0]

\* lat, long = <value>: a pair unpacks, None raises TypeError
unpack(v) ==
  IF Len(v) = 2 THEN [ok |-> TRUE, lat |-> v[1], long |-> v[2]]
  ELSE [ok |-> FALSE, lat |-> 0, long |-> 0]

----------------------------------------------------------------------------
(* The weather client *)

NoParams == [latitude |-> 0, longitude |-> 0, hourly |-> <<>>, current |-> <<>>]

\* the params dict of get_7day_weather (lines 54-58) and of
\* get_current_weather (lines 99-111)
Params(t, lat, long) ==
  [latitude |-> lat, longitude |-> long,
   hourly |-> IF t = "get_7day_weather" THEN hourly_variables ELSE <<>>,
   current |-> IF t = "get_current_weather" THEN current_variables ELSE <<>>]

\* requests_cache's key of a request: method, url and parameters
create_key(p) == <<"GET", url, p>>

Signatures == {create_key(Params(t, c[1], c[2])) : t \in Tools, c \in Coordinates}

NoEntry == [present |-> FALSE, response |-> NoResponse, expires |-> 0]

NoAnswer == [given |-> FALSE, response |-> NoResponse, at |-> 0]

\* CachedResponse.is_expired: expires is not None and utcnow() >= expires
is_expired(entry, t) == t >= entry.expires

\* the entry CachedSession writes for a response fetched at time t
new_entry_no_expiry(resp, t) ==
  [present |-> TRUE, response |-> resp, expires |-> t]

new_entry(resp, t) ==
  [present |-> TRUE, response |-> resp, expires |-> t + expire_after]

\* urllib3 Retry.is_exhausted that never gives up
is_exhausted_never(left) == FALSE

\* urllib3 Retry.is_exhausted: a retry count has fallen below zero
is_exhausted(left) == left < 0

\* what the forecast endpoint may answer to an hourly request
ForecastAnswers ==
  { [Hourly |-> [Time |-> 0, TimeEnd |-> 7200, Interval |-> 3600,
                 Variables |-> << <<10, 11>>, <<50, 60>>, <<0, 1>> >>],
     Current |-> NoBlock],
    [Hourly |-> [Time |-> 0, TimeEnd |-> 7200, Interval |-> 3600,
                 Variables |-> << <<12, 13>>, <<70, 80>>, <<0>> >>],
     Current |-> NoBlock] }

\* what the forecast endpoint may answer to a current request
CurrentAnswers ==
  { [Hourly |-> NoBlock,
     Current |-> [Time |-> 0, TimeEnd |-> 0, Interval |-> 900,
                  Variables |-> <<21, 40, 20, 0, 3, 12, 270>>]],
    [Hourly |-> NoBlock,
     Current |-> [Time |-> 900, TimeEnd |-> 900, Interval |-> 900,
                  Variables |-> <<22, 41, 23, 1, 61, 15, 180>>]] }

\* one HTTP attempt: a response, or a transient failure: no connection, or
\* a status the retry policy retries (500, 502, 504)
Upstream(p) ==
  {[ok |-> TRUE, failure |-> "", response |-> r] :
      r \in IF p.hourly # <<>> THEN ForecastAnswers ELSE CurrentAnswers}
  \cup {[ok |-> FALSE, failure |-> f, response |-> NoResponse] :
          f \in {"connection", "status"}}

\* the exception requests raises once urllib3 has given up (MaxRetryError)
TransportError(f) == IF f = "connection" THEN "ConnectionError" ELSE "RetryError"

TransportErrors == {TransportError(f) : f \in {"connection", "status"}}

----------------------------------------------------------------------------
(* The tool-invocation front end: the state machine *)

\* the tool calls the host may have in flight at once: two, so that each
\* step of one call can fall between any two steps of another. The tools are
\* coroutines with no await in them, so an event loop runs each to its end;
\* the steps below interleave at every blocking call, which covers that
\* schedule and those of a host that runs the calls in threads.
Inv == {1, 2}

Init ==
  /\ now = 0
  /\ cache = [k \in Signatures |-> NoEntry]
  /\ answered = [k \in Signatures |-> NoAnswer]
  /\ pc = [i \in Inv |-> "idle"]
  /\ tool = [i \in Inv |-> "none"]
  /\ location = [i \in Inv |-> ""]
  /\ geoUp = [i \in Inv |-> NoUp]
  /\ geoRet = [i \in Inv |-> NoRet]
  /\ params = [i \in Inv |-> NoParams]
  /\ total = [i \in Inv |-> 0]
  /\ response = [i \in Inv |-> NoResponse]
  /\ failure = [i \in Inv |-> ""]
  /\ served = [i \in Inv |-> "none"]
  /\ calls = [i \in Inv |-> <<>>]
  /\ outcome = [i \in Inv |-> NoOutcome]
  /\ shPc = "off"
  /\ shTool = "none"
  /\ shIn = NoResponse
  /\ shOut = NoOutcome

\* the host invokes tool t with argument loc
Start(i, t, loc) ==
  /\ pc[i] = "idle"
  /\ pc' = [pc EXCEPT ![i] = "geocode"]
  /\ tool' = [tool EXCEPT ![i] = t]
  /\ location' = [location EXCEPT ![i] = loc]
  /\ UNCHANGED <<now, cache, answered, geoUp, geoRet, params, total, response,
                 failure, served, calls, outcome, shapeVars>>

\* lat, long = get_lat_long(location), then the params dict (lines 53-58, 98-111)
Geocode(i, up) ==
  /\ pc[i] = "geocode"
  /\ up \in geocode(location[i])
  /\ LET ret == get_lat_long(up)
         pair == unpack(ret.value)
     IN /\ geoUp' = [geoUp EXCEPT ![i] = up]
        /\ geoRet' = [geoRet EXCEPT ![i] = ret]
        /\ calls' = [calls EXCEPT ![i] = Append(@, "geocode")]
        /\ IF ret.raised
           THEN /\ outcome' = [outcome EXCEPT ![i] = Raise("GeocoderError")]
                /\ pc' = [pc EXCEPT ![i] = "done"]
                /\ UNCHANGED params
           ELSE IF ~pair.ok
           THEN /\ outcome' = [outcome EXCEPT ![i] = Raise("TypeError")]
                /\ pc' = [pc EXCEPT ![i] = "done"]
                /\ UNCHANGED params
           ELSE /\ params' = [params EXCEPT ![i] =
                                Params(tool[i], pair.lat, pair.long)]
                /\ pc' = [pc EXCEPT ![i] = "weather"]
                /\ UNCHANGED outcome
  /\ UNCHANGED <<now, cache, answered, tool, location, total, response,
                 failure, served, shapeVars>>

\* the rest of the tool, with responses kept in a module-level global that
\* the other call in flight may have overwritten
Finish_shared(i, resp, how) ==
  LET others == {j \in Inv \ {i} : tool[j] = tool[i] /\ response[j] # NoResponse}
      seen == IF others = {} THEN resp ELSE response[CHOOSE j \in others : TRUE]
  IN /\ response' = [response EXCEPT ![i] = resp]
     /\ served' = [served EXCEPT ![i] = how]
     /\ outcome' = [outcome EXCEPT ![i] = shape(tool[i], seen)]
     /\ pc' = [pc EXCEPT ![i] = "done"]

\* the rest of the tool once responses[0] is at hand (lines 62-88, 115-142)
Finish(i, resp, how) ==
  /\ response' = [response EXCEPT ![i] = resp]
  /\ served' = [served EXCEPT ![i] = how]
  /\ outcome' = [outcome EXCEPT ![i] = shape(tool[i], resp)]
  /\ pc' = [pc EXCEPT ![i] = "done"]

\* openmeteo.weather_api(url, params=params) up to the cache lookup of
\* cache_session: a fresh entry answers the request, otherwise it goes out
WeatherApi(i) ==
  /\ pc[i] = "weather"
  /\ calls' = [calls EXCEPT ![i] = Append(@, "weather_api")]
  /\ LET entry == cache[create_key(params[i])]
     IN IF entry.present /\ ~is_expired(entry, now)
        THEN /\ Finish(i, entry.response, "cache")
             /\ UNCHANGED total
        ELSE /\ pc' = [pc EXCEPT ![i] = "http"]
             /\ total' = [total EXCEPT ![i] = retries]
             /\ UNCHANGED <<response, served, outcome>>
  /\ UNCHANGED <<now, cache, answered, tool, location, geoUp, geoRet, params,
                 failure, shapeVars>>

\* one HTTP attempt of retry_session: a response is cached and shaped; a
\* failure spends a retry, and raises once the retries are exhausted
HttpAttempt(i, ans) ==
  /\ pc[i] = "http"
  /\ ans \in Upstream(params[i])
  /\ IF ans.ok
     THEN /\ cache' = [cache EXCEPT ![create_key(params[i])] =
                         new_entry(ans.response, now)]
          /\ answered' = [answered EXCEPT ![create_key(params[i])] =
                            [given |-> TRUE, response |-> ans.response, at |-> now]]
          /\ Finish(i, ans.response, "network")
          /\ total' = [total EXCEPT ![i] = 0]
          /\ UNCHANGED failure
     ELSE IF is_exhausted(total[i] - 1)
     THEN /\ outcome' = [outcome EXCEPT ![i] = Raise(TransportError(ans.failure))]
          /\ served' = [served EXCEPT ![i] = "network"]
          /\ pc' = [pc EXCEPT ![i] = "done"]
          /\ failure' = [failure EXCEPT ![i] = ans.failure]
          /\ total' = [total EXCEPT ![i] = 0]
          /\ UNCHANGED <<cache, answered, response>>
     ELSE /\ total' = [total EXCEPT ![i] = @ - 1]
          /\ UNCHANGED <<cache, answered, response, failure, served, outcome, pc>>
  /\ UNCHANGED <<now, tool, location, geoUp, geoRet, params, calls, shapeVars>>

\* the host takes the result; nothing of the call is kept
Respond(i) ==
  /\ pc[i] = "done"
  /\ pc' = [pc EXCEPT ![i] = "idle"]
  /\ tool' = [tool EXCEPT ![i] = "none"]
  /\ location' = [location EXCEPT ![i] = ""]
  /\ geoUp' = [geoUp EXCEPT ![i] = NoUp]
  /\ geoRet' = [geoRet EXCEPT ![i] = NoRet]
  /\ params' = [params EXCEPT ![i] = NoParams]
  /\ response' = [response EXCEPT ![i] = NoResponse]
  /\ failure' = [failure EXCEPT ![i] = ""]
  /\ served' = [served EXCEPT ![i] = "none"]
  /\ calls' = [calls EXCEPT ![i] = <<>>]
  /\ outcome' = [outcome EXCEPT ![i] = NoOutcome]
  /\ UNCHANGED <<now, cache, answered, total, shapeVars>>

\* time passes
Tick ==
  /\ now + TickSeconds <= MaxTicks * TickSeconds
  /\ now' = now + TickSeconds
  /\ UNCHANGED <<cache, answered, pc, tool, location, geoUp, geoRet, params,
                 total, response, failure, served, calls, outcome, shapeVars>>

Step(i) ==
  \/ \E t \in Tools, loc \in Locations : Start(i, t, loc)
  \/ \E up \in geocode(location[i]) : Geocode(i, up)
  \/ WeatherApi(i)
  \/ \E ans \in Upstream(params[i]) : HttpAttempt(i, ans)
  \/ Respond(i)

Next == (\E i \in Inv : Step(i)) \/ Tick

Spec == Init /\ [][Next]_vars

\* the steps of a call in flight
Run(i) ==
  \/ \E up \in geocode(location[i]) : Geocode(i, up)
  \/ WeatherApi(i)
  \/ \E ans \in Upstream(params[i]) : HttpAttempt(i, ans)

----------------------------------------------------------------------------
(* The shapers alone, over every response within the bounds *)

Temperatures == {10, 11, 12}

HourlyInputs ==
  { [Hourly |-> [Time |-> t, TimeEnd |-> t + k * d, Interval |-> d,
                 Variables |-> <<temp, hum, prec>>],
     Current |-> NoBlock] :
      t \in {0, 3600}, d \in {1800, 3600}, k \in 0..MaxLen,
      temp \in SeqsUpTo(Temperatures, MaxLen),
      hum \in SeqsUpTo({50}, MaxLen), prec \in SeqsUpTo({0}, MaxLen) }

CurrentInputs ==
  { [Hourly |-> NoBlock,
     Current |-> [Time |-> 0, TimeEnd |-> 0, Interval |-> 900, Variables |-> v]] :
      v \in [1..7 -> {0, 1}] }

InitShape ==
  /\ now = 0
  /\ cache = [k \in Signatures |-> NoEntry]
  /\ answered = [k \in Signatures |-> NoAnswer]
  /\ pc = [i \in Inv |-> "idle"]
  /\ tool = [i \in Inv |-> "none"]
  /\ location = [i \in Inv |-> ""]
  /\ geoUp = [i \in Inv |-> NoUp]
  /\ geoRet = [i \in Inv |-> NoRet]
  /\ params = [i \in Inv |-> NoParams]
  /\ total = [i \in Inv |-> 0]
  /\ response = [i \in Inv |-> NoResponse]
  /\ failure = [i \in Inv |-> ""]
  /\ served = [i \in Inv |-> "none"]
  /\ calls = [i \in Inv |-> <<>>]
  /\ outcome = [i \in Inv |-> NoOutcome]
  /\ shPc = "input"
  /\ shOut = NoOutcome
  /\ \/ shTool = "get_7day_weather" /\ shIn \in HourlyInputs
     \/ shTool = "get_current_weather" /\ shIn \in CurrentInputs

\* lines 62-88 of get_7day_weather on the response shIn
ShapeForecast ==
  /\ shPc = "input"
  /\ shTool = "get_7day_weather"
  /\ shOut' = shape_7day(shIn)
  /\ shPc' = "done"
  /\ UNCHANGED <<mainVars, shTool, shIn>>

\* lines 115-142 of get_current_weather on the response shIn
ShapeCurrent ==
  /\ shPc = "input"
  /\ shTool = "get_current_weather"
  /\ shOut' = shape_current(shIn)
  /\ shPc' = "done"
  /\ UNCHANGED <<mainVars, shTool, shIn>>

NextShape == ShapeForecast \/ ShapeCurrent

SpecShape == InitShape /\ [][NextShape]_vars

----------------------------------------------------------------------------
(* Properties of the shapers (checked under SpecShape) *)

\* the lengths of the value arrays a response reports
ArrayLens(h) == {Len(h.Variables[k]) : k \in 1..3}

\* the length of the timestamp sequence from Time to TimeEnd, end exclusive
Steps(h) == (h.TimeEnd - h.Time) \div h.Interval

Min(S) == CHOOSE n \in S : \A m \in S : n <= m

\* the response keeps the upstream contract: a positive interval, a whole
\* number of intervals, and as many values per variable
Regular(h) ==
  /\ h.Interval > 0
  /\ h.TimeEnd >= h.Time
  /\ (h.TimeEnd - h.Time) % h.Interval = 0
  /\ ArrayLens(h) = {Steps(h)}

\* C2: a forecast response with start T, end E, interval d and (E - T)/d
\* values per variable gives exactly (E - T)/d records, in chronological
\* order, record i holding the timestamp T + i*d and, for each requested
\* variable, the value at index i of that variable's array.
C2_ForecastRecords ==
  (shPc = "done" /\ shTool = "get_7day_weather" /\ Regular(shIn.Hourly)) =>
    LET h == shIn.Hourly
    IN /\ shOut.kind = "return"
       /\ Len(shOut.value) = Steps(h)
       /\ \A r \in 1..Steps(h) :
            /\ DOMAIN shOut.value[r] =
                 {"date"} \cup {hourly_variables[k] : k \in 1..3}
            /\ shOut.value[r]["date"] = h.Time + (r - 1) * h.Interval
            /\ \A k \in 1..3 :
                 shOut.value[r][hourly_variables[k]] = h.Variables[k][r]

\* the example of the specification: interval 3600, three intervals and the
\* temperatures 10, 11, 12 give three records
C2_Witness ==
  /\ shPc = "done"
  /\ shTool = "get_7day_weather"
  /\ shIn.Hourly.Interval = 3600
  /\ shIn.Hourly.TimeEnd = shIn.Hourly.Time + 3 * 3600
  /\ shIn.Hourly.Variables[1] = <<10, 11, 12>>
  /\ Regular(shIn.Hourly)
  /\ shOut.kind = "return"
  /\ Len(shOut.value) = 3
  /\ shOut.value[3]["temperature_2m"] = 12

\* C3: the output of get_current_weather holds exactly the seven requested
\* fields, in the order of the request, field i mapped to the scalar at
\* position i of the response.
C3_CurrentFields ==
  (shPc = "done" /\ shTool = "get_current_weather") =>
    /\ shOut.kind = "return"
    /\ LET members == json_members(shOut.value)
       IN /\ Len(members) = 7
          /\ \A k \in 1..7 :
               members[k] = <<current_variables[k], shIn.Current.Variables[k]>>

C3_Witness ==
  /\ shPc = "done"
  /\ shTool = "get_current_weather"
  /\ shIn.Current.Variables = <<0, 1, 0, 1, 0, 1, 0>>
  /\ json_members(shOut.value)[6] = <<"wind_speed_10m", 1>>
  /\ json_members(shOut.value)[7] = <<"wind_direction_10m", 0>>

\* the lengths of the value arrays, or of the timestamp sequence, diverge
Diverging(h) == Cardinality(ArrayLens(h) \cup {Steps(h)}) > 1

\* C7: when the lengths of the reported arrays (or of the timestamp sequence)
\* diverge, the number of records returned is the length of the shortest
\* reported array.
C7_ShortestArray ==
  (shPc = "done" /\ shTool = "get_7day_weather" /\ Diverging(shIn.Hourly)) =>
    /\ shOut.kind = "return"
    /\ Len(shOut.value) = Min(ArrayLens(shIn.Hourly))

----------------------------------------------------------------------------
(* Properties of the tool calls (checked under Spec and FairSpec) *)

\* the geocoder did not resolve the location of call i: get_lat_long gave None
Unresolved(i) ==
  pc[i] \in {"weather", "http", "done"} /\ ~geoRet[i].raised /\ geoRet[i].value = None

\* C1: for a location the geocoder cannot resolve, the tool call ends with a
\* descriptive "not found" error and the weather API call is never attempted.
C1_NotFoundError ==
  \A i \in Inv :
    (pc[i] = "done" /\ Unresolved(i)) =>
      /\ outcome[i] = Raise("LocationNotFound")
      /\ calls[i] = <<"geocode">>

\* C4: get_lat_long never propagates an error: it gives the pair when the
\* lookup yields a match, and None both when the lookup yields no match and
\* when the lookup raises.
C4_GeocoderSwallows ==
  \A i \in Inv :
    pc[i] \in {"weather", "http", "done"} =>
      /\ ~geoRet[i].raised
      /\ outcome[i] # Raise("GeocoderError")
      /\ geoUp[i].kind = "match" =>
           (geoRet[i].value = geoUp[i].point /\ Len(geoRet[i].value) = 2)
      /\ geoUp[i].kind \in {"nomatch", "raise"} => geoRet[i].value = None

\* the lookup raised, and the call went on past get_lat_long
C4_Witness ==
  \E i, j \in Inv :
    /\ pc[i] = "done" /\ geoUp[i].kind = "raise" /\ geoRet[i].value = None
    /\ pc[j] = "weather" /\ geoUp[j].kind = "match" /\ geoRet[j].value = <<49, 2>>

\* the request of call i has been answered over the network less than one
\* cache window ago
AnsweredInWindow(i) ==
  LET a == answered[create_key(params[i])]
  IN a.given /\ now - a.at < expire_after

\* C5: once a weather request has been answered successfully, every later
\* identical request made within the cache window is served from the cache,
\* with that answer, and goes to no HTTP attempt.
C5_ServedFromCache ==
  [][\A i \in Inv :
       (pc[i] = "weather" /\ pc'[i] # "weather" /\ AnsweredInWindow(i)) =>
         /\ pc'[i] = "done"
         /\ served'[i] = "cache"
         /\ response'[i] = answered[create_key(params[i])].response
         /\ outcome'[i] = shape(tool[i], response'[i])
         /\ cache' = cache
         /\ answered' = answered]_vars

\* a call served from the cache half an hour after the answer was fetched
C5_Witness ==
  \E i \in Inv :
    /\ pc[i] = "done"
    /\ served[i] = "cache"
    /\ answered[create_key(params[i])].given
    /\ now - answered[create_key(params[i])].at = TickSeconds
    /\ response[i] = answered[create_key(params[i])].response

\* the weather request of call i failed on every attempt
TransportFailed(i) ==
  pc[i] = "done" /\ served[i] = "network" /\ failure[i] # ""

\* the kinds a classified error distinguishes
ClassifiedErrors == {"NetworkError", "ServiceError", "MalformedResponse"}

\* C6: a transport failure after all retries ends the tool call with a
\* classified error, not a raw exception and not a normal result.
C6_ClassifiedError ==
  \A i \in Inv :
    TransportFailed(i) =>
      /\ outcome[i].kind = "raise"
      /\ outcome[i].error \in ClassifiedErrors

\* how many steps call i can still take before it is done: the cache
\* lookup, the first attempt and the retries left
Rank(i) ==
  IF pc[i] = "weather" THEN retries + 2
  ELSE IF pc[i] = "http" THEN total[i] + 1
  ELSE 0

\* C8: every weather call terminates: a failing request is retried at most
\* `retries` times, each retry spending one of them; the failure that finds
\* none left raises the transport error to the caller of the tool, with no
\* further attempt and no result; and a weather call can always take its
\* next step, each step bringing it closer to its end.
C8_BoundedRetries ==
  /\ [](\A i \in Inv :
          /\ total[i] \in 0..retries
          /\ pc[i] \in {"weather", "http"} => ENABLED Run(i))
  /\ [][\A i \in Inv :
          /\ (pc[i] = "http" /\ pc'[i] = "http" /\ total'[i] # total[i]) =>
               (total[i] > 0 /\ total'[i] = total[i] - 1)
          /\ (pc[i] = "http" /\ pc'[i] = "done" /\ response'[i] = NoResponse) =>
               /\ total[i] = 0
               /\ outcome'[i].kind = "raise"
               /\ outcome'[i].error \in TransportErrors
          /\ (pc[i] \in {"weather", "http"} /\ <<pc[i], total[i]>>' # <<pc[i], total[i]>>) =>
               Rank(i)' < Rank(i)]_vars

\* a call whose request failed six times: the first attempt and five retries
C8_Witness ==
  \E i \in Inv :
    /\ TransportFailed(i)
    /\ outcome[i] = Raise("RetryError")
    /\ calls[i] = <<"geocode", "weather_api">>

\* C9 as stated: every invocation makes exactly one geocode lookup followed
\* by exactly one weather API call.
C9_OneGeocodeOneWeather ==
  \A i \in Inv : pc[i] = "done" => calls[i] = <<"geocode", "weather_api">>

\* C9, amended: every invocation makes exactly one geocode lookup; when it
\* gives coordinates, exactly one weather API call follows it; when it gives
\* None, the invocation ends with no weather API call; no step is repeated.
C9_GeocodeThenWeather ==
  \A i \in Inv :
    /\ pc[i] \in {"idle", "geocode"} => calls[i] = <<>>
    /\ pc[i] = "weather" => (calls[i] = <<"geocode">> /\ ~Unresolved(i))
    /\ pc[i] = "http" => (calls[i] = <<"geocode", "weather_api">> /\ ~Unresolved(i))
    /\ pc[i] = "done" =>
         calls[i] = IF Unresolved(i) THEN <<"geocode">>
                    ELSE <<"geocode", "weather_api">>

C9_Witness ==
  \E i, j \in Inv :
    /\ pc[i] = "done" /\ Unresolved(i) /\ calls[i] = <<"geocode">>
    /\ pc[j] = "done" /\ ~Unresolved(j) /\ calls[j] = <<"geocode", "weather_api">>

\* everything call i holds
Locals(i) ==
  <<pc[i], tool[i], location[i], geoUp[i], geoRet[i], params[i], total[i],
    response[i], failure[i], served[i], calls[i], outcome[i]>>

\* C10: simultaneous invocations are independent: under every interleaving a
\* step of one call leaves what the other calls hold unchanged, a call asks
\* the geocoder about its own location and the weather API about its own
\* coordinates, and two calls of a tool with the same location, the same
\* answer of the geocoder and the same answer to the weather request (a
\* response, fetched or cached, or the failure that ended it) end the same way.
C10_Independent ==
  /\ [][\A i, j \in Inv :
          (i # j /\ Locals(i)' # Locals(i)) => Locals(j)' = Locals(j)]_vars
  /\ [](\A i, j \in Inv :
          (/\ pc[i] = "done" /\ pc[j] = "done"
           /\ tool[i] = tool[j] /\ location[i] = location[j]
           /\ geoUp[i] = geoUp[j]
           /\ response[i] = response[j] /\ failure[i] = failure[j]) =>
            outcome[i] = outcome[j])
  /\ [](\A i \in Inv :
          pc[i] \in {"weather", "http", "done"} =>
            /\ geoUp[i] \in geocode(location[i])
            /\ ~Unresolved(i) =>
                 params[i] = Params(tool[i], geoRet[i].value[1], geoRet[i].value[2]))

\* two calls of one tool for one place, one answered by the network and the
\* other from the cache entry the first one wrote, with the same result
C10_Witness ==
  /\ pc[1] = "done" /\ pc[2] = "done"
  /\ tool[1] = tool[2] /\ location[1] = location[2]
  /\ served[1] = "network" /\ served[2] = "cache"
  /\ outcome[1].kind = "return" /\ outcome[1] = outcome[2]

====
